---- MODULE Spec2Model ----
(***************************************************************************)
(* Model of the Music Playlist Generator backend (src/main.py):            *)
(*   - the in-memory sliding-window RateLimiter,                           *)
(*   - the FastAPI request flow (rate-limit dependency, then handler),     *)
(*   - the parsing of the generation API's text into a 5-entry playlist.   *)
(* Strings that the code inspects character by character are sequences of  *)
(* one-character strings; time.time() is an integer number of clock ticks. *)
(***************************************************************************)
EXTENDS Integers, Sequences, FiniteSets, TLC

VARIABLES
    now,        \* the wall clock read by time.time()
    requests,   \* RateLimiter.requests: ip -> list of timestamps
    admitted,   \* history: ip -> every timestamp check_rate_limit ever recorded
    lastCall,   \* history: the most recent direct check_rate_limit call
    solo,       \* history: ip -> a limiter that only ever saw that ip's calls
    sinceGap,   \* history: ip -> calls made since the last call after a quiet window
    calls,      \* number of calls (requests) issued so far
    pc,         \* HTTP request slot -> position of the request
    req,        \* HTTP request slot -> the request (endpoint, client ip, genre)
    resp,       \* HTTP request slot -> the response and what the request did
    text,       \* the lines of the upstream text handed to the parser
    genre,      \* the genre of the parser call
    playlist,   \* the candidates collected by the line loop
    result,     \* the list returned by generate_song_list
    ppc,        \* position of the parser call
    line,       \* a single raw line under processing
    cur,        \* the line after the processing steps done so far
    entry,      \* the candidate produced from the line (or NoEntry)
    lstage      \* position of the single-line processing

vars == <<now, requests, admitted, lastCall, solo, sinceGap, calls, pc, req, resp,
          text, genre, playlist, result, ppc, line, cur, entry, lstage>>

limiterVars == <<now, requests, admitted, lastCall, solo, sinceGap, calls>>
httpVars    == <<pc, req, resp>>
parseVars   == <<text, genre, playlist, result, ppc>>
lineVars    == <<line, cur, entry, lstage>>

----------------------------------------------------------------------------
(* Strings *)

Digits == {"0", "1", "2", "3", "4", "5", "6", "7", "8", "9"}
Space  == " "
Quote  == "\""

RECURSIVE LStrip(_)
LStrip(s) == IF s # <<>> /\ Head(s) = Space THEN LStrip(Tail(s)) ELSE s

RECURSIVE RStrip(_)
RStrip(s) ==
    IF s # <<>> /\ s[Len(s)] = Space THEN RStrip(SubSeq(s, 1, Len(s) - 1)) ELSE s

\* str.strip()
Strip(s) == RStrip(LStrip(s))

RECURSIVE DropDigits(_)
DropDigits(s) == IF s # <<>> /\ Head(s) \in Digits THEN DropDigits(Tail(s)) ELSE s

\* re.sub(r'^\d+[<punct>]?\s*', '', s): one or more digits are required for a match
ReSubNumbering(s, punct) ==
    IF s = <<>> \/ Head(s) \notin Digits THEN s
    ELSE LET d == DropDigits(s)
             p == IF d # <<>> /\ Head(d) \in punct THEN Tail(d) ELSE d
         IN  LStrip(p)

\* the first pass, r'^\d+[\.\)]?\s*'
FirstPass(s) == ReSubNumbering(s, {".", ")"})

\* the second pass, r'^\d+[\.\)\:]?\s*'
SecondPass(s) == ReSubNumbering(s, {".", ")", ":"})

IsPrefixAt(s, sub, i) ==
    /\ i + Len(sub) - 1 <= Len(s)
    /\ \A j \in 1..Len(sub) : s[i + j - 1] = sub[j]

\* s.find(sub) from position i on: the first position where sub occurs, or 0
RECURSIVE Find(_, _, _)
Find(s, sub, i) ==
    IF i + Len(sub) - 1 > Len(s) THEN 0
    ELSE IF IsPrefixAt(s, sub, i) THEN i
    ELSE Find(s, sub, i + 1)

\* Python's `sub in s`
Contains(s, sub) == Find(s, sub, 1) # 0

\* s.split(sep)[0]
SplitHead(s, sep) ==
    LET at == Find(s, sep, 1)
    IN  IF at = 0 THEN s ELSE SubSeq(s, 1, at - 1)

\* s.split(sep, 1)[1], for s containing sep
SplitRest(s, sep) == SubSeq(s, Find(s, sep, 1) + Len(sep), Len(s))

Separator == <<" ", "-", " ">>

\* clean_text: drop the quote characters, then strip
clean_text(s) == Strip(SelectSeq(s, LAMBDA c : c # Quote))

\* one round of the loop `for separator in [":", "-", "/"]`
CutAt(artist, sep) ==
    IF Contains(artist, <<sep>>) THEN Strip(SplitHead(artist, <<sep>>)) ELSE artist

\* the album/label clean-up of the artist
TrimArtist(artist) ==
    IF Contains(artist, <<" ">>)
       /\ \E sep \in {":", "-", "/"} : Contains(artist, <<sep>>)
    THEN CutAt(CutAt(CutAt(artist, ":"), "-"), "/")
    ELSE artist

NoEntry == [title |-> <<>>, artist |-> <<>>]

\* the split on the first " - " and the cleaning of both parts;
\* NoEntry when the line is not appended to the playlist
SplitEntry(s) ==
    IF Contains(s, Separator)
    THEN LET title  == clean_text(SplitHead(s, Separator))
             artist == TrimArtist(clean_text(SplitRest(s, Separator)))
         IN  IF title # <<>> /\ artist # <<>>
             THEN [title |-> title, artist |-> artist]
             ELSE NoEntry
    ELSE NoEntry

\* the marker removal applied to a stripped line
StripMarkers(s) == SecondPass(FirstPass(s))

\* the body of the line loop: the entry appended for a raw line, or NoEntry
ParseLine(raw) ==
    LET s == Strip(raw)
    IN  IF s = <<>> THEN NoEntry ELSE SplitEntry(StripMarkers(s))

----------------------------------------------------------------------------
(* Processing of a single line (src/main.py lines 140-168), one step at a time *)

MaxPrefix == 3

MarkerPunct    == {".", ")", ":"}
PrefixAlphabet == {"1", "2", ".", ")", ":", " "}

Prefixes == UNION {[1..n -> PrefixAlphabet] : n \in 0..MaxPrefix}

\* what may follow the numbering on a line of the upstream text
Bodies ==
    { <<"a", " ", "-", " ", "b">>,                       \* a - b
      <<"a", "-", "b">>,                                 \* a-b       (no separator)
      <<"a", "b", " ", "-", " ", "b", " ", ":", " ", "c">>,   \* ab - b : c  (album note)
      <<"\"", "a", "\"", " ", "-", " ", "b", " ">>,      \* "a" - b
      <<"a", " ", "-", " ", "b", "-", "c">>,             \* a - b-c   (hyphenated artist)
      <<"-", " ", "a", " ", "-", " ", "b">>,             \* - a - b   (bullet)
      <<"a", " ", "-", " ", ":", " ", "c">>,             \* a - : c   (artist cut to nothing)
      <<>> }

Letters == {"a", "b", "c"}

RawLines == {p \o b : p \in Prefixes, b \in Bodies}

LineIdle ==
    /\ line = <<>>
    /\ cur = <<>>
    /\ entry = NoEntry
    /\ lstage = "off"

\* line 141: line = line.strip()
LineStrip ==
    /\ lstage = "raw"
    /\ cur' = Strip(line)
    /\ lstage' = "stripped"
    /\ UNCHANGED <<line, entry>>
    /\ UNCHANGED <<limiterVars, httpVars, parseVars>>

\* lines 144-145: an empty line is skipped
LineSkipEmpty ==
    /\ lstage = "stripped"
    /\ cur = <<>>
    /\ lstage' = "skipped"
    /\ UNCHANGED <<line, cur, entry>>
    /\ UNCHANGED <<limiterVars, httpVars, parseVars>>

\* line 148
LineFirstPass ==
    /\ lstage = "stripped"
    /\ cur # <<>>
    /\ cur' = FirstPass(cur)
    /\ lstage' = "pass1"
    /\ UNCHANGED <<line, entry>>
    /\ UNCHANGED <<limiterVars, httpVars, parseVars>>

\* line 151
LineSecondPass ==
    /\ lstage = "pass1"
    /\ cur' = SecondPass(cur)
    /\ lstage' = "pass2"
    /\ UNCHANGED <<line, entry>>
    /\ UNCHANGED <<limiterVars, httpVars, parseVars>>

\* lines 154-168
LineSplit ==
    /\ lstage = "pass2"
    /\ entry' = SplitEntry(cur)
    /\ lstage' = "done"
    /\ UNCHANGED <<line, cur>>
    /\ UNCHANGED <<limiterVars, httpVars, parseVars>>

LineNext ==
    \/ LineStrip
    \/ LineSkipEmpty
    \/ LineFirstPass
    \/ LineSecondPass
    \/ LineSplit

----------------------------------------------------------------------------
(* RateLimiter (src/main.py lines 56-75) *)

\* RATE_LIMIT (environment, default 100) and RATE_WINDOW (86400 s), scaled down
RATE_LIMIT  == 2
RATE_WINDOW == 2

MaxTime  == 4
MaxCalls == 6

IPs == {"A", "B"}

\* line 62-63: the list of ip, created empty on its first call
WithKey(reqs, ip) ==
    [i \in (DOMAIN reqs) \cup {ip} |-> IF i \in DOMAIN reqs THEN reqs[i] ELSE <<>>]

\* a window that still counts a timestamp exactly RATE_WINDOW old
InWindowInclusive(current_time, timestamp) == current_time - timestamp <= RATE_WINDOW

\* line 67: the condition under which a timestamp is kept
InWindow(current_time, timestamp) == current_time - timestamp < RATE_WINDOW

\* lines 66-67
Prune(stamps, current_time) ==
    SelectSeq(stamps, LAMBDA timestamp : InWindow(current_time, timestamp))

\* a comparison that lets one call too many through
ExceededOffByOne(stamps) == Len(stamps) > RATE_LIMIT

\* line 70
Exceeded(stamps) == Len(stamps) >= RATE_LIMIT

\* a call that records its timestamp even when it is rejected
RecordedAlways(stamps, current_time) == Append(stamps, current_time)

\* lines 70-75: the list left behind by the call
Recorded(stamps, current_time) ==
    IF Exceeded(stamps) THEN stamps ELSE Append(stamps, current_time)

\* one list shared by every identifier
StoreShared(reqs, ip, stamps) == [i \in DOMAIN reqs |-> stamps]

\* the assignment to self.requests[ip]
Store(reqs, ip, stamps) == [reqs EXCEPT ![ip] = stamps]

\* RateLimiter.check_rate_limit: the new self.requests and the returned value
check_rate_limit(reqs, ip, current_time) ==
    LET r0     == WithKey(reqs, ip)
        pruned == Prune(r0[ip], current_time)
    IN  [requests |-> Store(r0, ip, Recorded(pruned, current_time)),
         ok       |-> ~Exceeded(pruned)]

NoCall == [t |-> -1, ok |-> FALSE, prior |-> 0, soloOk |-> FALSE, rejects |-> 0]

EmptyDict == [i \in {} |-> <<>>]

LimiterGhostInit ==
    /\ admitted = [i \in IPs |-> <<>>]
    /\ lastCall = [i \in IPs |-> NoCall]
    /\ solo = [i \in IPs |-> EmptyDict]
    /\ sinceGap = [i \in IPs |-> 0]
    /\ calls = 0

\* line 58, at time 0
LimiterInit ==
    /\ now = 0
    /\ requests = EmptyDict
    /\ LimiterGhostInit

\* time passes between calls
Tick ==
    /\ now < MaxTime
    /\ now' = now + 1
    /\ UNCHANGED <<requests, admitted, lastCall, solo, sinceGap, calls>>
    /\ UNCHANGED <<httpVars, parseVars, lineVars>>

\* one call rate_limiter.check_rate_limit(ip) at the current time
DirectCheck(ip) ==
    /\ calls < MaxCalls
    /\ LET res   == check_rate_limit(requests, ip, now)
           alone == check_rate_limit(solo[ip], ip, now)
           prior == Cardinality({k \in DOMAIN admitted[ip] :
                                    now - admitted[ip][k] < RATE_WINDOW})
           quiet == lastCall[ip].t # -1 /\ now - lastCall[ip].t >= RATE_WINDOW
       IN  /\ requests' = res.requests
           /\ solo' = [solo EXCEPT ![ip] = alone.requests]
           /\ admitted' = [admitted EXCEPT
                             ![ip] = IF res.ok THEN Append(@, now) ELSE @]
           /\ lastCall' = [lastCall EXCEPT
                             ![ip] = [t |-> now, ok |-> res.ok, prior |-> prior,
                                      soloOk |-> alone.ok,
                                      rejects |-> IF res.ok THEN @.rejects
                                                  ELSE @.rejects + 1]]
           /\ sinceGap' = [sinceGap EXCEPT
                             ![ip] = IF quiet THEN 1
                                     ELSE IF @ = 0 THEN 0
                                     ELSE IF @ > RATE_LIMIT THEN @
                                     ELSE @ + 1]
    /\ calls' = calls + 1
    /\ UNCHANGED <<now, httpVars, parseVars, lineVars>>

LimiterNext ==
    \/ Tick
    \/ \E ip \in IPs : DirectCheck(ip)

----------------------------------------------------------------------------
(* generate_song_list after the upstream call (src/main.py lines 133-186) *)

\* the number of songs returned (lines 172, 175, 177, 178, 181)
PlaylistSize == 5

MaxLines == 6

\* the candidates of the line loop, in source order (lines 140-168)
RECURSIVE Collect(_)
Collect(lines) ==
    IF lines = <<>> THEN <<>>
    ELSE LET e == ParseLine(Head(lines))
         IN  IF e = NoEntry THEN Collect(Tail(lines))
             ELSE <<e>> \o Collect(Tail(lines))

\* line 172: the list returned when no candidate was found
EmptyFallback(g) ==
    [i \in 1..PlaylistSize |->
        [title  |-> <<"Random ", g, " Song ", ToString(i)>>,
         artist |-> <<"Artist ", ToString(i)>>]]

\* line 182, for i in range(5 - existing_count)
Filler(g, i) ==
    [title |-> <<"Random ", g, " Song">>, artist |-> <<"Artist ", ToString(i + 1)>>]

\* a filling loop that stops one entry short
PadOneShort(pl, g) ==
    pl \o [j \in 1..(PlaylistSize - 1 - Len(pl)) |-> Filler(g, j - 1)]

\* lines 178-182
Pad(pl, g) ==
    pl \o [j \in 1..(PlaylistSize - Len(pl)) |-> Filler(g, j - 1)]

\* the sequences of n distinct members of S
RECURSIVE Picks(_, _)
Picks(S, n) ==
    IF n = 0 THEN {<<>>}
    ELSE UNION {{<<x>> \o p : p \in Picks(S \ {x}, n - 1)} : x \in S}

\* line 177: random.sample(pl, n), every ordered choice of n distinct positions
Samples(pl, n) ==
    {[i \in 1..n |-> pl[f[i]]] : f \in Picks(1..Len(pl), n)}

\* a selection that also shuffles a list of exactly five
FinishSampleAtFive(pl, g) ==
    IF pl = <<>> THEN {EmptyFallback(g)}
    ELSE IF Len(pl) >= PlaylistSize THEN Samples(pl, PlaylistSize)
    ELSE {Pad(pl, g)}

\* lines 170-186: the lists the call may return for the collected candidates
Finish(pl, g) ==
    IF pl = <<>> THEN {EmptyFallback(g)}
    ELSE IF Len(pl) > PlaylistSize THEN Samples(pl, PlaylistSize)
    ELSE IF Len(pl) < PlaylistSize THEN {Pad(pl, g)}
    ELSE {pl}

Genres == {"rock", "jazz"}

\* the lines an upstream text is made of
TextLines ==
    { <<>>,
      <<"a", " ", "-", " ", "b">>,
      <<"1", ")", " ", "b", " ", "-", " ", "a">>,
      <<"a", "b">> }

\* playlist_text.split("\n") always has at least one element
Texts == UNION {[1..n -> TextLines] : n \in 1..MaxLines}

NoList == <<>>

ParseIdle ==
    /\ text = <<>>
    /\ genre = ""
    /\ playlist = <<>>
    /\ result = NoList
    /\ ppc = "off"

ParseInit ==
    /\ text \in Texts
    /\ genre \in Genres
    /\ playlist = <<>>
    /\ result = NoList
    /\ ppc = "start"

\* lines 134-168: the line loop
ParseLoop ==
    /\ ppc = "start"
    /\ playlist' = Collect(text)
    /\ ppc' = "collected"
    /\ UNCHANGED <<text, genre, result>>
    /\ UNCHANGED <<limiterVars, httpVars, lineVars>>

\* lines 170-186: the selection of exactly five
Finalize ==
    /\ ppc = "collected"
    /\ result' \in Finish(playlist, genre)
    /\ ppc' = "returned"
    /\ UNCHANGED <<text, genre, playlist>>
    /\ UNCHANGED <<limiterVars, httpVars, lineVars>>

ParseNext ==
    \/ ParseLoop
    \/ Finalize

----------------------------------------------------------------------------
(* The upstream call and its error handling (src/main.py lines 125-131, 188-190) *)

\* the texts the generation API answers with in the request flow
HttpTexts ==
    { <<<<"1", ".", " ", "a", " ", "-", " ", "b">>, <<"a", "b">>>> }

\* what requests.post(...) and response.json() may produce
UpstreamReplies ==
    {[raises |-> FALSE, status_code |-> c, hasText |-> h, text |-> t] :
        c \in {200, 500}, h \in BOOLEAN, t \in HttpTexts}
    \cup {[raises |-> TRUE, status_code |-> 0, hasText |-> FALSE, text |-> <<<<>>>>]}

\* a test that needs both conditions to fail
InvalidResponseBoth(up) == up.status_code # 200 /\ ~up.hasText

\* line 129
InvalidResponse(up) == up.status_code # 200 \/ ~up.hasText

\* lines 126-186: how the try block ends
TryBlock(g, up) ==
    IF up.raises
    THEN {[raised |-> "Exception", status |-> 0,
           detail |-> "connection error", playlist |-> NoList]}
    ELSE IF InvalidResponse(up)
    THEN {[raised |-> "HTTPException", status |-> 500,
           detail |-> "Error communicating with Cohere API", playlist |-> NoList]}
    ELSE {[raised |-> "none", status |-> 200, detail |-> "", playlist |-> p] :
             p \in Finish(Collect(up.text), g)}

\* lines 188-190: `except Exception` also catches the HTTPException of line 131
ExceptClause(o) ==
    IF o.raised = "none" THEN o
    ELSE [raised |-> "HTTPException", status |-> 500,
          detail |-> "Error generating playlist", playlist |-> NoList]

\* generate_song_list(genre) for one upstream reply
generate_song_list(g, up) == {ExceptClause(o) : o \in TryBlock(g, up)}

----------------------------------------------------------------------------
(* The request flow (src/main.py lines 80-88, 193-218) *)

MaxReq      == 4
MaxInFlight == 2
MaxClock    == 2

Slots == 1..MaxInFlight

RequestGenres == {"", "rock"}

\* the concurrent requests all come from one client, the case in which they
\* compete for quota; the independence of clients is checked on the limiter
HttpClients == {"A"}

NoRequest == [endpoint |-> "none", ip |-> "none", genre |-> ""]

NoResponse ==
    [status |-> 0, detail |-> "", limit |-> 0, window |-> "", playlist |-> NoList,
     used |-> 0, remaining |-> 0, validated |-> FALSE, upstream |-> 0,
     reply |-> "none", admitted |-> FALSE, raced |-> FALSE]

HttpIdle ==
    /\ pc = [r \in Slots |-> "idle"]
    /\ req = [r \in Slots |-> NoRequest]
    /\ resp = [r \in Slots |-> NoResponse]

\* a request arrives and takes the first free connection slot
Arrive(r) ==
    /\ calls < MaxReq
    /\ pc[r] \in {"idle", "done"}
    /\ \A q \in Slots : q < r => pc[q] \notin {"idle", "done"}
    /\ \E e \in {"generate", "status"}, ip \in HttpClients, g \in RequestGenres :
          req' = [req EXCEPT ![r] = [endpoint |-> e, ip |-> ip,
                                     genre |-> IF e = "generate" THEN g ELSE ""]]
    /\ resp' = [resp EXCEPT ![r] = NoResponse]
    /\ pc' = [pc EXCEPT ![r] = "dep"]
    /\ calls' = calls + 1
    /\ UNCHANGED <<now, requests, admitted, lastCall, solo, sinceGap>>
    /\ UNCHANGED <<parseVars, lineVars>>

\* a dependency that logs the rejection but forgets to raise
AfterCheckNoRaise(ok) == "handler"

\* lines 82-88: the dependency raises on rejection, else the handler runs
AfterCheck(ok) == IF ok THEN "handler" ELSE "done"

\* the number of timestamps of ip that are stored and unexpired
Unexpired(reqs, ip, t) ==
    IF ip \in DOMAIN reqs
    THEN Cardinality({k \in DOMAIN reqs[ip] : t - reqs[ip][k] < RATE_WINDOW})
    ELSE 0

\* the dependency check_rate_limit(request), lines 80-88
Depend(r) ==
    /\ pc[r] = "dep"
    /\ LET res     == check_rate_limit(requests, req[r].ip, now)
           waiting == \E q \in Slots \ {r} : pc[q] = "dep" /\ req[q].ip = req[r].ip
           last    == Unexpired(requests, req[r].ip, now) = RATE_LIMIT - 1
       IN  /\ requests' = res.requests
           /\ admitted' = [admitted EXCEPT
                             ![req[r].ip] = IF res.ok THEN Append(@, now) ELSE @]
           /\ IF res.ok
              THEN resp' = [resp EXCEPT ![r].admitted = TRUE,
                                        ![r].raced = waiting /\ last]
              ELSE resp' = [resp EXCEPT ![r].status = 429,
                                        ![r].detail = "Rate limit exceeded",
                                        ![r].limit = RATE_LIMIT,
                                        ![r].window = "day"]
           /\ pc' = [pc EXCEPT ![r] = AfterCheck(res.ok)]
    /\ UNCHANGED <<req, now, lastCall, solo, sinceGap, calls>>
    /\ UNCHANGED <<parseVars, lineVars>>

\* get_song_list, lines 194-201
GetSongList(r) ==
    /\ pc[r] = "handler"
    /\ req[r].endpoint = "generate"
    /\ IF req[r].genre = ""
       THEN resp' = [resp EXCEPT ![r].validated = TRUE,
                                 ![r].status = 400,
                                 ![r].detail = "Genre is required."]
       ELSE \E up \in UpstreamReplies :
            \E o \in generate_song_list(req[r].genre, up) :
               resp' = [resp EXCEPT ![r].validated = TRUE,
                                    ![r].upstream = @ + 1,
                                    ![r].reply =
                                        IF up.raises THEN "raised"
                                        ELSE IF up.status_code # 200 THEN "non200"
                                        ELSE IF ~up.hasText THEN "notext"
                                        ELSE "ok",
                                    ![r].status = o.status,
                                    ![r].detail = o.detail,
                                    ![r].playlist = o.playlist]
    /\ pc' = [pc EXCEPT ![r] = "done"]
    /\ UNCHANGED <<req, limiterVars, parseVars, lineVars>>

\* rate_limit_status, lines 210-218
RateLimitStatus(r) ==
    /\ pc[r] = "handler"
    /\ req[r].endpoint = "status"
    /\ LET requests_made == IF req[r].ip \in DOMAIN requests
                            THEN Len(requests[req[r].ip]) ELSE 0
       IN  resp' = [resp EXCEPT ![r].status = 200,
                                ![r].limit = RATE_LIMIT,
                                ![r].window = "24 hours",
                                ![r].used = requests_made,
                                ![r].remaining = RATE_LIMIT - requests_made]
    /\ pc' = [pc EXCEPT ![r] = "done"]
    /\ UNCHANGED <<req, limiterVars, parseVars, lineVars>>

\* time passes while requests are in flight
Clock ==
    /\ now < MaxClock
    /\ now' = now + 1
    /\ UNCHANGED <<requests, admitted, lastCall, solo, sinceGap, calls>>
    /\ UNCHANGED <<httpVars, parseVars, lineVars>>

HttpNext ==
    \/ Clock
    \/ \E r \in Slots : Arrive(r)
    \/ \E r \in Slots : Depend(r)
    \/ \E r \in Slots : GetSongList(r)
    \/ \E r \in Slots : RateLimitStatus(r)

----------------------------------------------------------------------------
(* Specifications *)

\* the service: requests arriving and being served concurrently
Init ==
    /\ now = 0
    /\ requests = EmptyDict
    /\ LimiterGhostInit
    /\ HttpIdle
    /\ ParseIdle
    /\ LineIdle

Next == HttpNext

Spec == Init /\ [][Next]_vars

\* the rate limiter alone, called directly
InitLimiter ==
    /\ LimiterInit
    /\ HttpIdle
    /\ ParseIdle
    /\ LineIdle

SpecLimiter == InitLimiter /\ [][LimiterNext]_vars

\* generate_song_list applied to one upstream text
InitParse ==
    /\ now = 0
    /\ requests = EmptyDict
    /\ LimiterGhostInit
    /\ HttpIdle
    /\ ParseInit
    /\ LineIdle

SpecParse == InitParse /\ [][ParseNext]_vars

\* the processing of one line
InitLine ==
    /\ now = 0
    /\ requests = EmptyDict
    /\ LimiterGhostInit
    /\ HttpIdle
    /\ ParseIdle
    /\ line \in RawLines
    /\ cur = <<>>
    /\ entry = NoEntry
    /\ lstage = "raw"

SpecLine == InitLine /\ [][LineNext]_vars

----------------------------------------------------------------------------
(* Properties *)

\* all of result's entries are {title, artist} records with both fields filled
WellFormed(list) ==
    \A i \in DOMAIN list :
        /\ DOMAIN list[i] = {"title", "artist"}
        /\ list[i].title # <<>>
        /\ list[i].artist # <<>>

\* C1: whatever text a successful upstream call returned (no candidate line,
\* fewer than 5, exactly 5, more than 5), generate_song_list returns a list of
\* exactly 5 {title, artist} entries.
C1_ExactlyFive ==
    ppc = "returned" => Len(result) = 5 /\ WellFormed(result)

\* a text with more than 5 candidates has been cut down to a returned list
C1_Witness ==
    /\ ppc = "returned"
    /\ Len(playlist) > 5
    /\ \E i, j \in DOMAIN text : ParseLine(text[i]) # ParseLine(text[j])

\* the calls made so far for ip that were admitted at a time within the window of t
AdmittedInWindow(ip, t) ==
    Cardinality({k \in DOMAIN admitted[ip] : t - admitted[ip][k] < RATE_WINDOW})

\* C2: with a non-decreasing clock, a call for ip at time t is admitted, and t
\* recorded, exactly when fewer than RATE_LIMIT previously admitted calls for ip
\* have a timestamp less than RATE_WINDOW before t; otherwise it is rejected and
\* nothing is recorded.
C2_AdmitIffBelowLimit ==
    \A ip \in IPs :
        lastCall[ip].t # -1 =>
            /\ lastCall[ip].ok <=> lastCall[ip].prior < RATE_LIMIT
            /\ lastCall[ip].ok =>
                   /\ requests[ip] # <<>>
                   /\ requests[ip][Len(requests[ip])] = lastCall[ip].t
            /\ requests[ip] =
                   SelectSeq(admitted[ip],
                             LAMBDA ts : lastCall[ip].t - ts < RATE_WINDOW)

\* a call is rejected with the window full, after earlier timestamps expired
C2_Witness ==
    \E ip \in IPs :
        /\ lastCall[ip].t # -1
        /\ ~lastCall[ip].ok
        /\ lastCall[ip].prior = RATE_LIMIT
        /\ Len(admitted[ip]) > RATE_LIMIT

\* C3: a call that comes at least RATE_WINDOW after the identifier's most recent
\* call (admitted or rejected), and the RATE_LIMIT - 1 calls after it, are all
\* admitted.
C3_QuotaRegained ==
    \A ip \in IPs :
        sinceGap[ip] \in 1..RATE_LIMIT => lastCall[ip].ok

\* a client that was rejected, paused, and has used its whole new quota
C3_Witness ==
    \E ip \in IPs :
        /\ sinceGap[ip] = RATE_LIMIT
        /\ lastCall[ip].ok
        /\ lastCall[ip].rejects > 0

\* C4: no step of a rate-limit status request changes how many unexpired
\* timestamps the limiter holds for the requesting identifier, so status queries
\* never use up quota.
C4_StatusLeavesQuota ==
    [][\A r \in Slots :
          (req[r].endpoint = "status" /\ pc[r] # pc'[r] /\ pc[r] \in {"dep", "handler"})
              => Unexpired(requests', req[r].ip, now) = Unexpired(requests, req[r].ip, now)]_vars

\* C5: a call for one identifier leaves every other identifier's list alone: each
\* identifier's list and decisions are those of a limiter that saw only its calls.
C5_IdentifiersIndependent ==
    \A ip \in IPs :
        /\ ip \in DOMAIN requests <=> ip \in DOMAIN solo[ip]
        /\ ip \in DOMAIN requests => requests[ip] = solo[ip][ip]
        /\ lastCall[ip].ok = lastCall[ip].soloOk

\* two identifiers have both called; one is rejected while the other is admitted
C5_Witness ==
    \E a, b \in IPs :
        /\ a # b
        /\ lastCall[a].t # -1 /\ lastCall[a].ok
        /\ lastCall[b].t # -1 /\ ~lastCall[b].ok
        /\ lastCall[a].t <= lastCall[b].t
        /\ Len(admitted[a]) > 1

\* C6: however the concurrent requests of one identifier interleave, never more
\* than RATE_LIMIT of them are admitted within one window, and the stored list
\* never holds more than RATE_LIMIT timestamps.
C6_NoOverAdmission ==
    \A ip \in IPs :
        /\ AdmittedInWindow(ip, now) <= RATE_LIMIT
        /\ ip \in DOMAIN requests => Len(requests[ip]) <= RATE_LIMIT

\* two requests of one identifier waited for the last quota slot together: one
\* took it, the other was rejected
C6_Witness ==
    \E r, q \in Slots :
        /\ r # q
        /\ req[r].ip = req[q].ip
        /\ resp[r].admitted /\ resp[r].raced
        /\ pc[q] = "done" /\ resp[q].status = 429

\* C7: a request whose rate-limit check is rejected ends with a 429 response that
\* names the limit and the window, without validating the genre, calling the
\* generation API or returning a playlist; nothing else happens before the check.
C7_RejectedBeforeAnythingElse ==
    \A r \in Slots :
        /\ (pc[r] \in {"handler", "done"} /\ ~resp[r].admitted) =>
               /\ pc[r] = "done"
               /\ resp[r].status = 429
               /\ resp[r].limit = RATE_LIMIT
               /\ resp[r].window = "day"
               /\ ~resp[r].validated
               /\ resp[r].upstream = 0
               /\ resp[r].playlist = NoList
        /\ (resp[r].validated \/ resp[r].upstream > 0 \/ resp[r].playlist # NoList)
               => resp[r].admitted

\* a request with an empty genre is rejected with 429, not 400
C7_Witness ==
    \E r \in Slots :
        /\ pc[r] = "done"
        /\ resp[r].status = 429
        /\ req[r].endpoint = "generate"
        /\ req[r].genre = ""

\* C8: when the generation API answers with a non-200 status or without the text
\* field, the request ends with a 500 response with a detail message and no
\* playlist, after exactly one upstream call.
C8_UpstreamFailureIs500 ==
    \A r \in Slots :
        resp[r].reply \in {"non200", "notext"} =>
            /\ pc[r] = "done"
            /\ resp[r].status = 500
            /\ resp[r].detail # ""
            /\ resp[r].playlist = NoList
            /\ resp[r].upstream = 1

\* both kinds of invalid answer have been served
C8_Witness ==
    \E r, q \in Slots :
        /\ resp[r].reply = "non200" /\ resp[r].status = 500
        /\ resp[q].reply = "notext" /\ resp[q].status = 500

\* the stripped line starts with digits followed by '.', ')' or ':'
HasMarker(s) ==
    /\ s # <<>>
    /\ Head(s) \in Digits
    /\ DropDigits(s) # <<>>
    /\ Head(DropDigits(s)) \in MarkerPunct

\* what follows the marker and its optional space
AfterMarker(s) == LStrip(Tail(DropDigits(s)))

\* C9: a leading marker (digits, then '.', ')' or ':', then optional space) is
\* gone before the line is tested for and split on " - ": for a line whose text
\* after the marker starts with a letter, the processed line is that text, and
\* the title starts with that letter.
C9_MarkerRemoved ==
    LET s == Strip(line)
    IN  (HasMarker(s) /\ AfterMarker(s) # <<>> /\ Head(AfterMarker(s)) \in Letters) =>
            /\ lstage \in {"pass2", "done"} => cur = AfterMarker(s)
            /\ (lstage = "done" /\ entry # NoEntry) =>
                   Head(entry.title) = Head(AfterMarker(s))

\* the entries that lines 172 and 182 make up
IsPlaceholder(e, g) ==
    /\ e.title \in {<<"Random ", g, " Song">>}
                   \cup {<<"Random ", g, " Song ", ToString(i)>> : i \in 1..5}
    /\ e.artist \in {<<"Artist ", ToString(i)>> : i \in 1..5}

\* C10: with k <= 5 candidates the returned list is the k candidates in source
\* order followed by 5 - k placeholders, and it is the only list the call can
\* return for that text and genre.
C10_CandidatesThenPlaceholders ==
    LET k == Len(playlist)
    IN  /\ (ppc = "collected" /\ k <= 5) =>
               Cardinality(Finish(playlist, genre)) = 1
        /\ (ppc = "returned" /\ k <= 5) =>
               /\ result \in Finish(playlist, genre)
               /\ SubSeq(result, 1, k) = playlist
               /\ \A j \in (k + 1)..5 : IsPlaceholder(result[j], genre)
               /\ \A j \in 1..k : ~IsPlaceholder(result[j], genre)

\* a text with some, but fewer than 5, candidates has been padded
C10_Witness ==
    /\ ppc = "returned"
    /\ Len(playlist) \in 2..4
    /\ playlist[1] # playlist[2]
    /\ Len(text) > Len(playlist)

====
